---- MODULE Spec2Model ----
(***************************************************************************)
(* Session lifecycle and expiry manager of the knowledge-extraction API:   *)
(* the in-memory registry SessionManager._sessions, its background cleanup *)
(* task, the chat endpoint that appends to a session's message_history,    *)
(* and the application lifespan that starts and drains the manager.        *)
(*                                                                         *)
(* All coroutines run on one asyncio event loop: an action is the code     *)
(* that runs between two suspension points.  The clock is counted in       *)
(* minutes, the unit of SessionManager._timeout_minutes.                   *)
(***************************************************************************)
EXTENDS Integers, Sequences, FiniteSets, TLC

\* ------------------------------------------------------------------ bounds
MaxSessions == 2    \* APISession objects constructed in one run
MaxTime == 2        \* last reading of the clock, in minutes
TimeoutMinutes == 1 \* default_timeout_minutes the manager is built with
MaxChats == 2       \* chat requests in one run
MaxTasks == 2       \* cleanup tasks created in one run
MaxStops == 1       \* stop_cleanup_task calls in one run

\* SessionManager.__init__: default_timeout_minutes, used by the lifespan.
default_timeout_minutes == 30

\* ------------------------------------------------------------------ values
None == "None"

UUIDs == 1..MaxSessions
SessionKeys == 0..MaxSessions   \* 0: an id that uuid4 never returned
ChatIds == 1..MaxChats
TaskIds == 1..MaxTasks
StopIds == 1..MaxStops
AppChatIds == {1}               \* the chat request open while the application drains

ProjectIds == {"p1", "p2", "p3", "p4", "not found"}
Names == {None, "n1"}
MessageOf(c) == IF c = 1 THEN "m1" ELSE "m2"   \* the message request c carries
Replies == {"r1"}

\* The project_id a listing is asked with: none, the empty string of
\* GET /sessions?project_id= and two projects.
ListFilters == {None, "", "p1", "p2"}

\* The projects table as get_item_by_id sees it: p1 and p2 have a cloned
\* repository, p3 has none, p4 is no row of the table.  The last row was
\* posted with an id of the client's choosing (ProjectCreate allows extra
\* fields and add_item takes item["id"] when it is there) and with an empty
\* repo_path.
ProjectTable ==
    [p \in {"p1", "p2", "p3", "not found"} |->
        [row |-> TRUE,
         repo_path |-> CASE p = "p1" -> "/repo/a"
                         [] p = "p2" -> "/repo/b"
                         [] p = "p3" -> None
                         [] OTHER -> ""]]

\* What get_item_by_id returns for an id that is no row: Python's None.
NoRow == [row |-> FALSE, repo_path |-> None]

VARIABLES
    _sessions,          \* SessionManager._sessions, a dict in insertion order:
                        \* a sequence of <<session_id, object>>
    heap,               \* the APISession objects still referenced
    allocated,          \* number of APISession objects constructed so far
    _timeout_minutes,   \* SessionManager._timeout_minutes
    _cleanup_task,      \* SessionManager._cleanup_task: a task, or 0 for None
    _running,           \* SessionManager._running
    tasks,              \* the asyncio tasks running _cleanup_loop
    stops,              \* the calls of stop_cleanup_task
    chats,              \* the requests to the chat endpoint
    lifespan,           \* where the application's lifespan stands
    now,                \* datetime.now(timezone.utc), in minutes
    projects,           \* the projects table
    ret                 \* what the last completed manager call returned or raised

manager == <<_sessions, heap, allocated>>
reaper == <<_cleanup_task, _running, tasks, stops>>
config == <<_timeout_minutes, projects>>

vars == <<_sessions, heap, allocated, _timeout_minutes, _cleanup_task,
          _running, tasks, stops, chats, lifespan, now, projects, ret>>

\* ------------------------------------------------------------- dict helpers
DictKeys(d) == {d[i][1] : i \in DOMAIN d}

DictHas(d, k) == k \in DictKeys(d)

DictGet(d, k) == d[CHOOSE i \in DOMAIN d : d[i][1] = k][2]

\* d[k] = v: a new key goes last, an existing key keeps its place.
DictSet(d, k, v) ==
    IF DictHas(d, k)
    THEN [i \in DOMAIN d |-> IF d[i][1] = k THEN <<k, v>> ELSE d[i]]
    ELSE Append(d, <<k, v>>)

\* Mutant: clear() where the code has del.
DictDelAll(d, ks) == <<>>

\* del d[k] for every k of ks.
DictDel(d, ks) ==
    LET Keep(e) == e[1] \notin ks IN SelectSeq(d, Keep)

Put(f, k, v) == [x \in DOMAIN f \cup {k} |-> IF x = k THEN v ELSE f[x]]

\* ---------------------------------------------------------------- sessions
\* get_item_by_id(db, "projects", project_id): the row, or None.
get_item_by_id(table, project_id) ==
    IF project_id \in DOMAIN table THEN table[project_id] ELSE NoRow

\* not repo_path: None and the empty string are both falsy.
Falsy(repo_path) == repo_path = None \/ repo_path = ""

\* str(uuid.uuid4()): a value uuid4 has not returned before.  The manager only
\* compares ids for equality, so the next unused number stands for any of them;
\* n is the number of ids generated so far.
uuid4(n) == n + 1

\* Mutant: the project's id is passed where the generated session_id belongs.
APISessionIdFromProject(session_id, t, project_id, repo_path, name) ==
    [session_id |-> project_id,
     created_at |-> t,
     last_accessed |-> t,
     project_id |-> project_id,
     repo_path |-> repo_path,
     message_history |-> <<>>,
     name |-> name]

\* Mutant: the name argument is not passed on to the session.
APISessionNameDropped(session_id, t, project_id, repo_path, name) ==
    [session_id |-> session_id,
     created_at |-> t,
     last_accessed |-> t,
     project_id |-> project_id,
     repo_path |-> repo_path,
     message_history |-> <<>>,
     name |-> None]

\* The APISession constructed by create_session.
APISession(session_id, t, project_id, repo_path, name) ==
    [session_id |-> session_id,
     created_at |-> t,
     last_accessed |-> t,
     project_id |-> project_id,
     repo_path |-> repo_path,
     message_history |-> <<>>,
     name |-> name]

\* Mutant: the registry is rebound to a dict holding the new session alone.
StoreSessionAlone(reg, session_id, obj) == <<<<session_id, obj>>>>

\* self._sessions[session_id] = session
StoreSession(reg, session_id, obj) == DictSet(reg, session_id, obj)

\* Mutant: the local time is taken, which runs behind UTC.
TouchLocalTime(session, t) == [session EXCEPT !.last_accessed = t - 1]

\* Mutant: the refresh reads the project's repo_path again.
TouchRepoPath(session, t) ==
    [session EXCEPT !.last_accessed = t,
                    !.repo_path = get_item_by_id(projects, session.project_id).repo_path]

\* Mutant: the refresh also resets the name.
TouchResetName(session, t) == [session EXCEPT !.last_accessed = t, !.name = None]

\* session.last_accessed = datetime.now(timezone.utc)
Touch(session, t) == [session EXCEPT !.last_accessed = t]

\* Mutant: the name is assigned without the test for None.
ApplyNameAlways(session, name) == [session EXCEPT !.name = name]

\* if name is not None: session.name = name
ApplyName(session, name) ==
    IF name # None THEN [session EXCEPT !.name = name] ELSE session

\* Mutant: >= where the code compares with >.
expired_ids_inclusive(reg, h, t, timeout) ==
    {session_id \in DictKeys(reg) : t - h[DictGet(reg, session_id)].last_accessed >= timeout}

\* expired_ids of cleanup_expired, for one reading t of the clock.
expired_ids(reg, h, t, timeout) ==
    {session_id \in DictKeys(reg) : t - h[DictGet(reg, session_id)].last_accessed > timeout}

\* The registry after the del loop of cleanup_expired.
cleanup_expired(reg, h, t, timeout) == DictDel(reg, expired_ids(reg, h, t, timeout))

\* len(expired_ids), the value cleanup_expired returns.
cleanup_count(reg, h, t, timeout) == Cardinality(expired_ids(reg, h, t, timeout))

\* Mutant: the sessions are counted and logged, not cleared.
close_all_sessions_kept(reg) == reg

\* self._sessions.clear()
close_all_sessions(reg) == <<>>

\* APISession.to_info
to_info(session) ==
    [session_id |-> session.session_id,
     created_at |-> session.created_at,
     last_accessed |-> session.last_accessed,
     project_id |-> session.project_id,
     message_count |-> Len(session.message_history),
     name |-> session.name]

\* list_sessions(project_id): the summaries, in the registry's order.
list_sessions(reg, h, project_id) ==
    LET all == [i \in DOMAIN reg |-> h[reg[i][2]]]
        Match(s) == s.project_id = project_id
        sessions == IF project_id # None /\ project_id # "" THEN SelectSeq(all, Match) ELSE all
    IN [i \in DOMAIN sessions |-> to_info(sessions[i])]

\* The objects a chat request in flight holds on to.
ChatRefs(ch) == {ch[c].session : c \in {x \in DOMAIN ch : ch[x].pc = "query"}}

\* Reference counting: an object that neither the registry nor a request
\* refers to is freed.
Collect(h, reg, ch) ==
    [o \in DOMAIN h \cap ({reg[i][2] : i \in DOMAIN reg} \cup ChatRefs(ch)) |-> h[o]]

\* What a call hands back: op is the method, exc the message of the ValueError
\* it raised (<<>> when it returned), val the value returned: an object, a
\* count, True or False as 1 or 0, and 0 for None.
NoneVal == 0
True == 1
False == 0

\* ret in a specification that does not look at what the calls return.
Unobserved == [op |-> "", val |-> NoneVal, exc |-> <<>>]

Returned(op, val) ==
    IF ret = Unobserved THEN ret ELSE [op |-> op, val |-> val, exc |-> <<>>]

Raised(op, exc) ==
    IF ret = Unobserved THEN ret ELSE [op |-> op, val |-> NoneVal, exc |-> exc]

\* ----------------------------------------------------------------- Init
\* A task: st is where its coroutine stands, must_cancel that cancel() was
\* called on it, failed that its loop logged "Error in cleanup loop".
\* expired_ids is the list a pass has built and not yet deleted.
NoTask == [st |-> "none", must_cancel |-> FALSE, failed |-> FALSE, expired_ids |-> <<>>]
IdleStop == [pc |-> "idle", task |-> 0]
IdleChat == [pc |-> "idle", session |-> 0, message |-> "", prompt |-> "",
             response_text |-> "", status |-> 0, message_count |-> 0]

\* SessionManager.__init__
Constructed ==
    /\ _sessions = <<>>
    /\ heap = <<>>
    /\ allocated = 0
    /\ _cleanup_task = 0
    /\ _running = FALSE
    /\ tasks = [t \in TaskIds |-> NoTask]
    /\ stops = [p \in StopIds |-> IdleStop]
    /\ chats = [c \in ChatIds |-> IdleChat]
    /\ now = 0
    /\ projects = ProjectTable

\* A manager built with a short timeout, its calls' results observed.
Init ==
    /\ Constructed
    /\ _timeout_minutes = TimeoutMinutes
    /\ lifespan = "none"
    /\ ret = [op |-> "__init__", val |-> NoneVal, exc |-> <<>>]

\* The same manager, the calls' results not observed.
InitUnobserved ==
    /\ Constructed
    /\ _timeout_minutes = TimeoutMinutes
    /\ lifespan = "none"
    /\ ret = Unobserved

\* The manager the application's lifespan builds: SessionManager().
InitApp ==
    /\ Constructed
    /\ _timeout_minutes = default_timeout_minutes
    /\ lifespan = "startup"
    /\ ret = Unobserved

\* -------------------------------------------------------------- the clock
Tick ==
    /\ now < MaxTime
    /\ now' = now + 1
    /\ UNCHANGED <<manager, reaper, config, chats, lifespan, ret>>

\* ------------------------------------------------------- SessionManager
\* create_session: the project is not in the table.
CreateSessionNotFound(project_id, name) ==
    /\ get_item_by_id(projects, project_id) = NoRow
    /\ ret' = Raised("create_session", <<"Project ", project_id, " not found">>)
    /\ UNCHANGED <<manager, reaper, config, chats, lifespan, now>>

\* create_session: the project has no repo_path.
CreateSessionNoRepo(project_id, name) ==
    /\ get_item_by_id(projects, project_id) # NoRow
    /\ Falsy(get_item_by_id(projects, project_id).repo_path)
    /\ ret' = Raised("create_session",
                     <<"Project ", project_id,
                       " does not have repo_path set. Please add a codebase first.">>)
    /\ UNCHANGED <<manager, reaper, config, chats, lifespan, now>>

\* create_session: uuid4 returned session_id; the session is built and stored.
CreateSessionStore(project_id, name, session_id) ==
    /\ allocated < MaxSessions
    /\ get_item_by_id(projects, project_id) # NoRow
    /\ ~Falsy(get_item_by_id(projects, project_id).repo_path)
    /\ LET obj == allocated + 1
           session == APISession(session_id, now, project_id,
                                 get_item_by_id(projects, project_id).repo_path, name)
           reg == StoreSession(_sessions, session_id, obj)
       IN /\ _sessions' = reg
          /\ heap' = Collect(Put(heap, obj, session), reg, chats)
          /\ allocated' = obj
          /\ ret' = Returned("create_session", obj)
    /\ UNCHANGED <<reaper, config, chats, lifespan, now>>

\* create_session, with the session_id uuid4 generates.
CreateSession(project_id, name) ==
    \/ CreateSessionNotFound(project_id, name)
    \/ CreateSessionNoRepo(project_id, name)
    \/ CreateSessionStore(project_id, name, uuid4(allocated))

\* get_session(session_id)
GetSession(session_id) ==
    /\ IF DictHas(_sessions, session_id)
       THEN /\ heap' = [heap EXCEPT ![DictGet(_sessions, session_id)] = Touch(@, now)]
            /\ ret' = Returned("get_session", DictGet(_sessions, session_id))
       ELSE /\ heap' = heap
            /\ ret' = Returned("get_session", NoneVal)
    /\ UNCHANGED <<_sessions, allocated, reaper, config, chats, lifespan, now>>

\* update_session(session_id, name)
UpdateSession(session_id, name) ==
    /\ IF DictHas(_sessions, session_id)
       THEN /\ heap' = [heap EXCEPT ![DictGet(_sessions, session_id)] =
                                        Touch(ApplyName(@, name), now)]
            /\ ret' = Returned("update_session", DictGet(_sessions, session_id))
       ELSE /\ heap' = heap
            /\ ret' = Returned("update_session", NoneVal)
    /\ UNCHANGED <<_sessions, allocated, reaper, config, chats, lifespan, now>>

\* delete_session(session_id)
DeleteSession(session_id) ==
    /\ IF DictHas(_sessions, session_id)
       THEN /\ _sessions' = DictDel(_sessions, {session_id})
            /\ heap' = Collect(heap, _sessions', chats)
            /\ ret' = Returned("delete_session", True)
       ELSE /\ UNCHANGED <<_sessions, heap>>
            /\ ret' = Returned("delete_session", False)
    /\ UNCHANGED <<allocated, reaper, config, chats, lifespan, now>>

\* Mutant: the sessions are fetched through get_session, which refreshes them.
ListSessionsTouching(project_id) ==
    /\ heap' = [o \in DOMAIN heap |->
                   IF \E i \in DOMAIN _sessions : _sessions[i][2] = o
                   THEN Touch(heap[o], now) ELSE heap[o]]
    /\ ret' = Returned("list_sessions", Len(list_sessions(_sessions, heap, project_id)))
    /\ UNCHANGED <<_sessions, allocated, reaper, config, chats, lifespan, now>>

\* list_sessions(project_id): the value returned is
\* list_sessions(_sessions, heap, project_id), and ret keeps its length.
ListSessions(project_id) ==
    /\ ret' = Returned("list_sessions", Len(list_sessions(_sessions, heap, project_id)))
    /\ UNCHANGED <<manager, reaper, config, chats, lifespan, now>>

\* cleanup_expired() called directly.
CleanupExpired ==
    /\ _sessions' = cleanup_expired(_sessions, heap, now, _timeout_minutes)
    /\ heap' = Collect(heap, _sessions', chats)
    /\ ret' = Returned("cleanup_expired", cleanup_count(_sessions, heap, now, _timeout_minutes))
    /\ UNCHANGED <<allocated, reaper, config, chats, lifespan, now>>

\* close_all_sessions() called directly.
CloseAllSessions ==
    /\ _sessions' = close_all_sessions(_sessions)
    /\ heap' = Collect(heap, _sessions', chats)
    /\ ret' = Returned("close_all_sessions", NoneVal)
    /\ UNCHANGED <<allocated, reaper, config, chats, lifespan, now>>

\* ---------------------------------------------------- the sessions router
\* The characters of the strings the error messages are made of.
Chars(piece) ==
    CASE piece = "Project " ->
           <<"P", "r", "o", "j", "e", "c", "t", " ">>
      [] piece = " not found" ->
           <<" ", "n", "o", "t", " ", "f", "o", "u", "n", "d">>
      [] piece = " does not have repo_path set. Please add a codebase first." ->
           <<" ", "d", "o", "e", "s", " ", "n", "o", "t", " ", "h", "a", "v", "e",
             " ", "r", "e", "p", "o", "_", "p", "a", "t", "h", " ", "s", "e", "t",
             ".", " ", "P", "l", "e", "a", "s", "e", " ", "a", "d", "d", " ", "a",
             " ", "c", "o", "d", "e", "b", "a", "s", "e", " ", "f", "i", "r", "s",
             "t", ".">>
      [] piece = "p1" ->
           <<"p", "1">>
      [] piece = "p2" ->
           <<"p", "2">>
      [] piece = "p3" ->
           <<"p", "3">>
      [] piece = "p4" ->
           <<"p", "4">>
      [] piece = "not found" ->
           <<"n", "o", "t", " ", "f", "o", "u", "n", "d">>

RECURSIVE str(_)
\* str(e): the message of the ValueError, exc being the pieces of its f-string.
str(exc) == IF exc = <<>> THEN <<>> ELSE Chars(Head(exc)) \o str(Tail(exc))

\* sub in s, on strings as sequences of characters.
In(sub, s) ==
    \E i \in 0..(Len(s) - Len(sub)) : SubSeq(s, i + 1, i + Len(sub)) = sub

\* Mutant: every ValueError is answered with 400.
create_session_route_400(r) == IF r.exc = <<>> THEN 201 ELSE 400

\* POST /sessions: the status the route answers with when
\* session_manager.create_session ended as r says.
create_session_route(r) ==
    IF r.exc = <<>> THEN 201
    ELSE LET error_msg == str(r.exc) IN
         IF In(Chars("not found"), error_msg) THEN 404 ELSE 400

\* ------------------------------------------------------ the cleanup task
\* asyncio.Task.done()
TaskDone(task) == task.st = "done"

\* Mutant: the task is created without a look at the old one.
ShouldStartAlways(handle, ts) == TRUE

\* self._cleanup_task is None or self._cleanup_task.done()
ShouldStart(handle, ts) == handle = 0 \/ TaskDone(ts[handle])

\* self._cleanup_task and not self._cleanup_task.done()
ShouldCancel(handle, ts) == handle # 0 /\ ~TaskDone(ts[handle])

\* Mutant: the task is cancelled and not awaited.
AwaitSkipped(task) == TRUE

\* await self._cleanup_task resumes once the awaited task is done.
AwaitResumes(task) == TaskDone(task)

NumTasks(ts) == Cardinality({t \in DOMAIN ts : ts[t].st # "none"})

\* start_cleanup_task()
StartCleanupTask ==
    /\ IF ShouldStart(_cleanup_task, tasks)
       THEN /\ NumTasks(tasks) < MaxTasks
            /\ _running' = TRUE
            /\ _cleanup_task' = NumTasks(tasks) + 1
            /\ tasks' = [tasks EXCEPT ![NumTasks(tasks) + 1] =
                                        [NoTask EXCEPT !.st = "pending"]]
       ELSE UNCHANGED <<_running, _cleanup_task, tasks>>
    /\ ret' = Returned("start_cleanup_task", NoneVal)
    /\ UNCHANGED <<manager, stops, config, chats, lifespan, now>>

\* stop_cleanup_task(), up to its await (or to its return when there is no
\* task to wait for).
StopCleanupTask(p) ==
    /\ stops[p].pc = "idle"
    /\ _running' = FALSE
    /\ IF ShouldCancel(_cleanup_task, tasks)
       THEN /\ tasks' = [tasks EXCEPT ![_cleanup_task].must_cancel = TRUE]
            /\ stops' = [stops EXCEPT ![p] = [pc |-> "awaiting", task |-> _cleanup_task]]
       ELSE /\ tasks' = tasks
            /\ stops' = [stops EXCEPT ![p] = [pc |-> "returned", task |-> _cleanup_task]]
    /\ UNCHANGED <<manager, _cleanup_task, config, chats, lifespan, now, ret>>

\* stop_cleanup_task(), from its await to its return.
StopCleanupTaskResume(p) ==
    /\ stops[p].pc = "awaiting"
    /\ AwaitResumes(tasks[stops[p].task])
    /\ stops' = [stops EXCEPT ![p].pc = "returned"]
    /\ UNCHANGED <<manager, _cleanup_task, _running, tasks, config, chats, lifespan, now, ret>>

\* _cleanup_loop, first step of the task: a task cancelled before it ever
\* ran ends without entering the loop; otherwise the loop tests _running
\* and goes to sleep.
CleanupLoopStart(t) ==
    /\ tasks[t].st = "pending"
    /\ tasks' = [tasks EXCEPT ![t].st =
                    IF tasks[t].must_cancel \/ ~_running THEN "done" ELSE "sleeping"]
    /\ UNCHANGED <<manager, _cleanup_task, _running, stops, config, chats, lifespan, now, ret>>

\* Mutant: if where the code has while, the loop ends after its first pass.
AfterPassOnce(running) == "done"

\* while self._running: after a pass the loop sleeps again or ends.
AfterPass(running) == IF running THEN "sleeping" ELSE "done"

\* _cleanup_loop: the sleep is over, cleanup_expired runs, and the loop
\* tests _running again.
CleanupLoopPass(t) ==
    /\ tasks[t].st = "sleeping"
    /\ ~tasks[t].must_cancel
    /\ _sessions' = cleanup_expired(_sessions, heap, now, _timeout_minutes)
    /\ heap' = Collect(heap, _sessions', chats)
    /\ tasks' = [tasks EXCEPT ![t].st = AfterPass(_running)]
    /\ UNCHANGED <<allocated, _cleanup_task, _running, stops, config, chats, lifespan, now, ret>>

\* _cleanup_loop: CancelledError is raised at the sleep; the loop breaks.
CleanupLoopCancelled(t) ==
    /\ tasks[t].st = "sleeping"
    /\ tasks[t].must_cancel
    /\ tasks' = [tasks EXCEPT ![t].st = "done"]
    /\ UNCHANGED <<manager, _cleanup_task, _running, stops, config, chats, lifespan, now, ret>>

\* Mutant: the handler of Exception leaves the loop.
OnExceptionBreak(running) == "done"

\* except Exception: the error is logged and the while tests _running again.
OnException(running) == AfterPass(running)

\* _cleanup_loop: the sleep is over and the pass raises an exception that is
\* no CancelledError, before it removed anything.
CleanupLoopPassFails(t) ==
    /\ tasks[t].st = "sleeping"
    /\ ~tasks[t].must_cancel
    /\ tasks' = [tasks EXCEPT ![t].st = OnException(_running), ![t].failed = TRUE]
    /\ UNCHANGED <<manager, _cleanup_task, _running, stops, config, chats, lifespan, now, ret>>

\* expired_ids as the list comprehension builds it, in the dict's order.
expired_ids_list(reg, h, t, timeout) ==
    LET keys == [i \in DOMAIN reg |-> reg[i][1]]
    IN SelectSeq(keys, LAMBDA k : k \in expired_ids(reg, h, t, timeout))

RECURSIVE del_each(_, _)
\* for session_id in expired_ids: del self._sessions[session_id].  A del of
\* a key that is not there raises KeyError and ends the loop.
del_each(reg, ids) ==
    IF ids = <<>> THEN [reg |-> reg, raised |-> FALSE]
    ELSE IF ~DictHas(reg, Head(ids)) THEN [reg |-> reg, raised |-> TRUE]
    ELSE del_each(DictDel(reg, {Head(ids)}), Tail(ids))

\* Mutant: the pass awaits between its scan and its deletions.
BusyNever(ts) == FALSE

\* cleanup_expired has no await between building expired_ids and deleting
\* them: the event loop runs nothing else while a pass stands between the two.
Busy(ts) == \E t \in DOMAIN ts : ts[t].st = "scanned"

\* _cleanup_loop: the sleep is over; cleanup_expired reads the clock and
\* builds expired_ids.
CleanupLoopScan(t) ==
    /\ tasks[t].st = "sleeping"
    /\ ~tasks[t].must_cancel
    /\ tasks' = [tasks EXCEPT ![t].st = "scanned",
                              ![t].expired_ids =
                                  expired_ids_list(_sessions, heap, now, _timeout_minutes)]
    /\ UNCHANGED <<manager, _cleanup_task, _running, stops, config, chats, lifespan, now, ret>>

\* _cleanup_loop: cleanup_expired deletes the ids of expired_ids; the loop
\* logs a KeyError and in either case tests _running again.
CleanupLoopDel(t) ==
    /\ tasks[t].st = "scanned"
    /\ LET out == del_each(_sessions, tasks[t].expired_ids) IN
       /\ _sessions' = out.reg
       /\ heap' = Collect(heap, out.reg, chats)
       /\ tasks' = [tasks EXCEPT ![t].st = IF out.raised THEN OnException(_running)
                                                        ELSE AfterPass(_running),
                                 ![t].failed = tasks[t].failed \/ out.raised,
                                 ![t].expired_ids = <<>>]
    /\ UNCHANGED <<allocated, _cleanup_task, _running, stops, config, chats, lifespan, now, ret>>

CleanupLoop(t) ==
    \/ CleanupLoopStart(t)
    \/ CleanupLoopPass(t)
    \/ CleanupLoopCancelled(t)

\* ------------------------------------------------------ the chat endpoint
\* Mutant: the role is rendered as it is stored.
capitalize_kept(role) == role

\* str.capitalize() on the roles the endpoint writes.
capitalize(role) ==
    CASE role = "user" -> "User"
      [] role = "assistant" -> "Assistant"
      [] OTHER -> role

RECURSIVE JoinBlankLine(_)
\* "\n\n".join(formatted)
JoinBlankLine(formatted) ==
    IF formatted = <<>> THEN ""
    ELSE IF Len(formatted) = 1 THEN formatted[1]
    ELSE formatted[1] \o "\n\n" \o JoinBlankLine(Tail(formatted))

format_message_history(messages) ==
    JoinBlankLine([i \in DOMAIN messages |->
                      capitalize(messages[i].role) \o ": " \o messages[i].content])

build_chat_prompt(history, new_message) ==
    IF history = <<>>
    THEN new_message
    ELSE "Previous conversation:\n" \o format_message_history(history)
         \o "\n\nUser's new question: " \o new_message
         \o "\n\nPlease respond to the user's new question, using the previous conversation context if relevant."

Message(role, content) == [role |-> role, content |-> content]

\* Mutant: the reply is appended before the user's message.
AppendExchangeReplyFirst(history, message, response_text) ==
    Append(Append(history, Message("assistant", response_text)), Message("user", message))

\* Mutant: only the user's message is appended.
AppendExchangeUserOnly(history, message, response_text) ==
    Append(history, Message("user", message))

\* The two appends of the chat endpoint.
AppendExchange(history, message, response_text) ==
    Append(Append(history, Message("user", message)), Message("assistant", response_text))

\* Mutant: the user's message is appended before the agent is asked.
HistoryOnErrorUserKept(history, message) == Append(history, Message("user", message))

\* The history after the query raised: "On error, don't update history".
HistoryOnError(history, message) == history

\* Mutant: the missing session is answered by the endpoint's own handler.
RejectedAsError == [IdleChat EXCEPT !.pc = "done", !.status = 500]

\* The get_session dependency raises HTTPException(404): the request ends
\* before the endpoint's body runs.
Rejected == [IdleChat EXCEPT !.pc = "done", !.status = 404]

\* POST /sessions/{session_id}/chat: the get_session dependency, then the
\* endpoint up to its first wait for the agent.
ChatRequest(c, session_id, message) ==
    /\ chats[c].pc = "idle"
    /\ IF DictHas(_sessions, session_id)
       THEN LET obj == DictGet(_sessions, session_id) IN
            /\ heap' = [heap EXCEPT ![obj] = Touch(@, now)]
            /\ chats' = [chats EXCEPT ![c] =
                   [IdleChat EXCEPT !.pc = "query", !.session = obj, !.message = message,
                                    !.prompt = build_chat_prompt(heap[obj].message_history,
                                                                 message)]]
       ELSE /\ heap' = heap
            /\ chats' = [chats EXCEPT ![c] = Rejected]
    /\ UNCHANGED <<_sessions, allocated, reaper, config, lifespan, now, ret>>

\* The agent yields an AssistantMessage with a TextBlock.
ChatTextBlock(c, text) ==
    /\ chats[c].pc = "query"
    /\ chats[c].response_text # text
    /\ chats' = [chats EXCEPT ![c].response_text = text]
    /\ UNCHANGED <<manager, reaper, config, lifespan, now, ret>>

\* The agent's stream ends: the exchange is appended and the response built.
ChatComplete(c) ==
    /\ chats[c].pc = "query"
    /\ LET obj == chats[c].session
           history == AppendExchange(heap[obj].message_history, chats[c].message,
                                     chats[c].response_text)
       IN /\ chats' = [chats EXCEPT ![c] =
                 [IdleChat EXCEPT !.pc = "done", !.status = 200,
                                  !.response_text = chats[c].response_text,
                                  !.message_count = Len(history)]]
          /\ heap' = Collect([heap EXCEPT ![obj].message_history = history],
                             _sessions, chats')
    /\ UNCHANGED <<_sessions, allocated, reaper, config, lifespan, now, ret>>

\* The agent raises: the endpoint logs and re-raises.
ChatError(c) ==
    /\ chats[c].pc = "query"
    /\ LET obj == chats[c].session
           history == HistoryOnError(heap[obj].message_history, chats[c].message)
       IN /\ chats' = [chats EXCEPT ![c] = [IdleChat EXCEPT !.pc = "done", !.status = 500]]
          /\ heap' = Collect([heap EXCEPT ![obj].message_history = history],
                             _sessions, chats')
    /\ UNCHANGED <<_sessions, allocated, reaper, config, lifespan, now, ret>>

Chat ==
    \/ \E c \in ChatIds, session_id \in SessionKeys :
          ChatRequest(c, session_id, MessageOf(c))
    \/ \E c \in ChatIds, text \in Replies : ChatTextBlock(c, text)
    \/ \E c \in ChatIds : ChatComplete(c)
    \/ \E c \in ChatIds : ChatError(c)

Registry ==
    \/ \E project_id \in ProjectIds, name \in Names : CreateSession(project_id, name)
    \/ \E session_id \in SessionKeys : GetSession(session_id)
    \/ \E session_id \in SessionKeys, name \in Names : UpdateSession(session_id, name)
    \/ \E session_id \in SessionKeys : DeleteSession(session_id)
    \/ \E project_id \in ListFilters : ListSessions(project_id)
    \/ CleanupExpired
    \/ CloseAllSessions

Next ==
    \/ Tick
    \/ Registry

Spec == Init /\ [][Next]_vars

\* The manager when uuid4 may return an id it returned before.
CollisionNext ==
    \/ Next
    \/ \E project_id \in ProjectIds, name \in Names, session_id \in UUIDs :
          CreateSessionStore(project_id, name, session_id)

CollisionSpec == Init /\ [][CollisionNext]_vars

\* POST /projects/{project_id}/add-codebase: update_item sets the row's
\* repo_path when the row is there.
AddCodebase(project_id, repo_path) ==
    /\ projects' = IF project_id \in DOMAIN projects
                   THEN [projects EXCEPT ![project_id].repo_path = repo_path]
                   ELSE projects
    /\ UNCHANGED <<manager, reaper, _timeout_minutes, chats, lifespan, now, ret>>

\* The manager, one chat request and a project whose repository moves.
ProjectNext ==
    \/ Tick
    \/ Registry
    \/ \E session_id \in SessionKeys : ChatRequest(1, session_id, MessageOf(1))
    \/ \E text \in Replies : ChatTextBlock(1, text)
    \/ ChatComplete(1)
    \/ ChatError(1)
    \/ \E repo_path \in {"/repo/a", "/repo/c"} : AddCodebase("p1", repo_path)

ProjectSpec == InitUnobserved /\ [][ProjectNext]_vars

\* The manager and its cleanup task, a pass taken in its two halves: what
\* the event loop can run is everything while no pass is under way, and the
\* second half of the pass otherwise.
AtomicNext ==
    \/ Tick
    \/ ~Busy(tasks) /\
          \/ \E project_id \in {"p1"}, name \in Names : CreateSession(project_id, name)
          \/ \E session_id \in SessionKeys : GetSession(session_id)
          \/ \E session_id \in SessionKeys : DeleteSession(session_id)
          \/ StartCleanupTask
          \/ \E t \in TaskIds : CleanupLoopStart(t)
          \/ \E t \in TaskIds : CleanupLoopScan(t)
    \/ \E t \in TaskIds : CleanupLoopDel(t)

AtomicSpec == InitUnobserved /\ [][AtomicNext]_vars

\* The manager under chat requests.
ChatNext ==
    \/ Tick
    \/ Registry
    \/ Chat

ChatSpec == InitUnobserved /\ [][ChatNext]_vars

\* The manager with its cleanup task started and stopped at will.
ReaperNext ==
    \/ Tick
    \/ \E project_id \in ProjectIds, name \in Names : CreateSession(project_id, name)
    \/ \E session_id \in SessionKeys : GetSession(session_id)
    \/ StartCleanupTask
    \/ \E p \in StopIds : StopCleanupTask(p)
    \/ \E p \in StopIds : StopCleanupTaskResume(p)
    \/ \E t \in TaskIds : CleanupLoop(t)

ReaperSpec == InitUnobserved /\ [][ReaperNext]_vars

\* The same, the calls' results observed.
ObservedReaperSpec == Init /\ [][ReaperNext]_vars

\* The manager with cleanup passes that may fail.
FaultyReaperNext ==
    \/ ReaperNext
    \/ \E t \in TaskIds : CleanupLoopPassFails(t)

FaultyReaperSpec == InitUnobserved /\ [][FaultyReaperNext]_vars

\* The event loop runs a task that is ready, and a sleep comes to its end.
FairReaperSpec == ReaperSpec /\ WF_vars(\E t \in TaskIds : CleanupLoop(t))

\* ------------------------------------------- build_chat_prompt on its own
\* The histories the endpoint can have written: exchanges of a user message
\* and a reply, the reply being empty when the agent sent no text.
Exchanges ==
    {<<Message("user", m), Message("assistant", r)>> :
        m \in {"m1", "m2"}, r \in Replies \cup {""}}

Histories == {<<>>} \cup Exchanges \cup {a \o b : a \in Exchanges, b \in Exchanges}

\* One session of p1 with one of these histories, and no request yet.
InitPrompt ==
    /\ \E history \in Histories :
          heap = <<[APISession(1, 0, "p1", "/repo/a", None)
                       EXCEPT !.message_history = history]>>
    /\ _sessions = <<<<1, 1>>>>
    /\ allocated = 1
    /\ _cleanup_task = 0
    /\ _running = FALSE
    /\ tasks = [t \in TaskIds |-> NoTask]
    /\ stops = [p \in StopIds |-> IdleStop]
    /\ chats = [c \in ChatIds |-> IdleChat]
    /\ now = 0
    /\ projects = ProjectTable
    /\ _timeout_minutes = TimeoutMinutes
    /\ lifespan = "none"
    /\ ret = Unobserved

\* Requests that build their prompt from the history.
PromptNext ==
    \/ Tick
    \/ \E c \in ChatIds : ChatRequest(c, 1, MessageOf(c))

PromptSpec == InitPrompt /\ [][PromptNext]_vars

\* ------------------------------------------------------- the application
\* lifespan, before the yield: the manager is built and its task started.
LifespanStartup ==
    /\ lifespan = "startup"
    /\ lifespan' = "serving"
    /\ _running' = TRUE
    /\ _cleanup_task' = NumTasks(tasks) + 1
    /\ tasks' = [tasks EXCEPT ![NumTasks(tasks) + 1] =
                                [NoTask EXCEPT !.st = "pending"]]
    /\ UNCHANGED <<manager, stops, config, chats, now, ret>>

\* lifespan, after the yield: await session_manager.stop_cleanup_task()
LifespanStop ==
    /\ lifespan = "serving"
    /\ lifespan' = "stopping"
    /\ _running' = FALSE
    /\ IF ShouldCancel(_cleanup_task, tasks)
       THEN /\ tasks' = [tasks EXCEPT ![_cleanup_task].must_cancel = TRUE]
            /\ stops' = [stops EXCEPT ![1] = [pc |-> "awaiting", task |-> _cleanup_task]]
       ELSE /\ tasks' = tasks
            /\ stops' = [stops EXCEPT ![1] = [pc |-> "returned", task |-> _cleanup_task]]
    /\ UNCHANGED <<manager, _cleanup_task, config, chats, now, ret>>

\* lifespan: stop_cleanup_task has returned; await close_all_sessions()
LifespanClose ==
    /\ lifespan = "stopping"
    /\ stops[1].pc = "returned"
    /\ lifespan' = "closed"
    /\ _sessions' = close_all_sessions(_sessions)
    /\ heap' = Collect(heap, _sessions', chats)
    /\ UNCHANGED <<allocated, reaper, config, chats, now, ret>>

\* The routes of the sessions and chat routers, served until the drain.
Requests ==
    \/ \E project_id \in ProjectIds, name \in Names : CreateSession(project_id, name)
    \/ \E session_id \in SessionKeys : GetSession(session_id)
    \/ \E session_id \in SessionKeys, name \in Names : UpdateSession(session_id, name)
    \/ \E session_id \in SessionKeys : DeleteSession(session_id)
    \/ \E project_id \in ListFilters : ListSessions(project_id)
    \/ \E c \in AppChatIds, session_id \in SessionKeys :
          ChatRequest(c, session_id, MessageOf(c))

AppNext ==
    \/ LifespanStartup
    \/ lifespan \in {"serving", "stopping"} /\ Requests
    \/ \E c \in AppChatIds, text \in Replies : ChatTextBlock(c, text)
    \/ \E c \in AppChatIds : ChatComplete(c)
    \/ \E c \in AppChatIds : ChatError(c)
    \/ \E t \in TaskIds : CleanupLoop(t)
    \/ StopCleanupTaskResume(1)
    \/ LifespanStop
    \/ LifespanClose
    \/ Tick

AppSpec == InitApp /\ [][AppNext]_vars

\* ------------------------------------------------------------ properties
Session(k) == heap[DictGet(_sessions, k)]

IdleTime(session) == now - session.last_accessed

\* C1: no two entries of the registry hold sessions with the same session_id,
\* whatever calls of create, get, update, delete, cleanup and close_all ran.
C1_UniqueSessionIds ==
    \A i, j \in DOMAIN _sessions :
        i # j => heap[_sessions[i][2]].session_id # heap[_sessions[j][2]].session_id

\* Two sessions are live.
C1_Witness == Len(_sessions) = 2

\* C2: a cleanup_expired call removes exactly the sessions idle for longer
\* than the timeout, leaves every other session as it was, and returns the
\* number it removed.
C2_CleanupExact ==
    [][CleanupExpired =>
        /\ \A k \in DictKeys(_sessions) :
              IF IdleTime(Session(k)) > _timeout_minutes
              THEN ~DictHas(_sessions', k)
              ELSE /\ DictHas(_sessions', k)
                   /\ DictGet(_sessions', k) = DictGet(_sessions, k)
                   /\ heap'[DictGet(_sessions', k)] = Session(k)
        /\ DictKeys(_sessions') \subseteq DictKeys(_sessions)
        /\ ret'.val = Len(_sessions) - Len(_sessions')]_vars

\* A pass has removed one session and kept another.
C2_Witness ==
    /\ ret.op = "cleanup_expired"
    /\ ret.val = 1
    /\ Len(_sessions) = 1

\* C3: when stop_cleanup_task returns, every cleanup task created before the
\* call is done, and no such task runs a cleanup pass afterwards.
C3_StopWaitsForLoop ==
    [][/\ \A p \in StopIds : stops'[p].pc = "returned" =>
              \A t \in TaskIds : t <= stops'[p].task => tasks'[t].st = "done"
       /\ \A t \in TaskIds : CleanupLoopPass(t) =>
              \A p \in StopIds : stops[p].pc = "returned" => t > stops[p].task]_vars

\* A stop has returned after waiting for the task it cancelled.
C3_Witness ==
    \E p \in StopIds :
        /\ stops[p].pc = "returned"
        /\ stops[p].task # 0
        /\ tasks[stops[p].task].st = "done"
        /\ tasks[stops[p].task].must_cancel

\* C4: once the lifespan has run stop_cleanup_task and then
\* close_all_sessions, the registry is empty, list_sessions returns nothing
\* and no cleanup task is pending or sleeping.
C4_ShutdownDrains ==
    lifespan = "closed" =>
        /\ _sessions = <<>>
        /\ list_sessions(_sessions, heap, None) = <<>>
        /\ \A t \in TaskIds : tasks[t].st \in {"none", "done"}

\* The drain has run while a chat request still held a session that had
\* been idle for less than the timeout.
C4_Witness ==
    /\ lifespan = "closed"
    /\ \E c \in AppChatIds :
          /\ chats[c].pc = "query"
          /\ now - heap[chats[c].session].last_accessed < _timeout_minutes

\* C5: when the agent's query raises, the session's message_history is what
\* it was before the request and the request ends in an error.
C5_FailedChatKeepsHistory ==
    [][\A c \in ChatIds : ChatError(c) =>
          /\ chats'[c].status = 500
          /\ \A o \in DOMAIN heap : o \in DOMAIN heap' =>
                heap'[o].message_history = heap[o].message_history]_vars

\* One request failed and another succeeded on a session that now holds
\* the successful exchange alone.
C5_Witness ==
    /\ \E c \in ChatIds : chats[c].pc = "done" /\ chats[c].status = 500
    /\ \E c \in ChatIds : chats[c].pc = "done" /\ chats[c].status = 200
    /\ Len(_sessions) = 1
    /\ Len(heap[_sessions[1][2]].message_history) = 2

\* C6: a successful exchange appends its user message and then the reply to
\* the history as it stands at the append, and returns the length after it,
\* also while another exchange on the same session is in flight.
C6_ExchangeAppendsTwo ==
    [][\A c \in ChatIds : ChatComplete(c) =>
          LET o == chats[c].session
              before == heap[o].message_history
          IN /\ chats'[c].status = 200
             /\ chats'[c].message_count = Len(before) + 2
             /\ o \in DOMAIN heap' =>
                   heap'[o].message_history =
                       before \o <<[role |-> "user", content |-> chats[c].message],
                                   [role |-> "assistant",
                                    content |-> chats[c].response_text]>>]_vars

\* Two exchanges were in flight on one session at once and both succeeded.
C6_Witness ==
    /\ chats[1].pc = "done" /\ chats[1].status = 200 /\ chats[1].message_count = 4
    /\ chats[2].pc = "done" /\ chats[2].status = 200 /\ chats[2].message_count = 2
    /\ \E i \in DOMAIN _sessions :
          /\ Len(heap[_sessions[i][2]].message_history) = 4
          /\ heap[_sessions[i][2]].message_history[1].content = "m2"
          /\ heap[_sessions[i][2]].message_history[3].content = "m1"

\* C7: an entry of the registry is still there, with the same object, after
\* every step that is not a delete_session of its id, a cleanup_expired that
\* finds it idle for longer than the timeout, or a close_all_sessions.
C7_SessionStaysRegistered ==
    [][\A k \in DictKeys(_sessions) :
          \/ DictHas(_sessions', k) /\ DictGet(_sessions', k) = DictGet(_sessions, k)
          \/ DeleteSession(k)
          \/ CleanupExpired /\ IdleTime(Session(k)) > _timeout_minutes
          \/ CloseAllSessions]_vars

\* A session has lived through a refresh, a rename, a chat exchange and the
\* creation of another session.
C7_Witness ==
    /\ Len(_sessions) = 2
    /\ Session(1).name = "n1"
    /\ Session(1).last_accessed > Session(1).created_at
    /\ Len(Session(1).message_history) = 2
    /\ Session(2).created_at > Session(1).last_accessed

\* C8: while the cleanup loop is on, a session idle for longer than the
\* timeout does not stay so for ever: it is removed, unless it is accessed
\* again or the loop is stopped.
C8_ExpiredEventuallyReaped ==
    \A k \in UUIDs :
        (_running /\ DictHas(_sessions, k) /\ IdleTime(Session(k)) > _timeout_minutes)
            ~> (\/ ~_running
                \/ ~DictHas(_sessions, k)
                \/ IdleTime(Session(k)) <= _timeout_minutes)

\* The loop, still on, has removed the only session that was created.
C8_Witness ==
    /\ _running
    /\ allocated = 1
    /\ _sessions = <<>>
    /\ \E t \in TaskIds : tasks[t].st = "sleeping" /\ ~tasks[t].must_cancel

\* C9: get_session and update_session never move a session's last_accessed
\* backwards, and after every step last_accessed >= created_at in every session.
C9_LastAccessedMonotonic ==
    [][/\ \A k \in DictKeys(_sessions) :
             (GetSession(k) \/ \E name \in Names : UpdateSession(k, name)) =>
                 /\ DictHas(_sessions', k)
                 /\ heap'[DictGet(_sessions', k)].last_accessed >= Session(k).last_accessed
       /\ \A o \in DOMAIN heap' : heap'[o].last_accessed >= heap'[o].created_at]_vars

\* A get_session has moved last_accessed past created_at.
C9_Witness ==
    /\ ret.op = "get_session"
    /\ ret.val \in DOMAIN heap
    /\ heap[ret.val].last_accessed > heap[ret.val].created_at

\* C10: a create_session that returns adds one entry, under an id no entry
\* had, for a session with created_at = last_accessed = now, no messages, the
\* project_id and name given and the project's repo_path; the entries that
\* were there are as they were.
C10_CreateAddsOne ==
    [][\A project_id \in ProjectIds, name \in Names :
          (CreateSession(project_id, name) /\ ret'.exc = <<>>) =>
              LET new == heap'[ret'.val] IN
              /\ Len(_sessions') = Len(_sessions) + 1
              /\ new.session_id \notin DictKeys(_sessions)
              /\ DictHas(_sessions', new.session_id)
              /\ DictGet(_sessions', new.session_id) = ret'.val
              /\ new.created_at = now /\ new.last_accessed = now
              /\ new.message_history = <<>>
              /\ new.project_id = project_id
              /\ new.name = name
              /\ new.repo_path = projects[project_id].repo_path
              /\ \A k \in DictKeys(_sessions) :
                    /\ DictHas(_sessions', k)
                    /\ DictGet(_sessions', k) = DictGet(_sessions, k)
                    /\ heap'[DictGet(_sessions', k)] = Session(k)]_vars

\* A named session was created for p2 beside a session of p1.
C10_Witness ==
    /\ ret.op = "create_session"
    /\ ret.exc = <<>>
    /\ Len(_sessions) = 2
    /\ heap[ret.val].name = "n1"
    /\ heap[ret.val].repo_path = "/repo/b"
    /\ Session(1).repo_path = "/repo/a"

\* C11: create_session for a project_id that is no row of the projects table
\* raises the not-found ValueError, which the route answers with 404, and
\* the registry and its sessions are as before.
C11_UnknownProjectNotFound ==
    [][\A project_id \in ProjectIds, name \in Names :
          (CreateSession(project_id, name) /\ get_item_by_id(projects, project_id) = NoRow) =>
              /\ ret'.exc = <<"Project ", project_id, " not found">>
              /\ create_session_route(ret') = 404
              /\ UNCHANGED manager]_vars

\* A create_session for the unknown project p4 was refused while a session
\* was live.
C11_Witness ==
    /\ ret.op = "create_session"
    /\ ret.exc = <<"Project ", "p4", " not found">>
    /\ create_session_route(ret) = 404
    /\ Len(_sessions) = 1

\* C12: for every project_id, create_session for a project that exists and
\* has no repo_path raises the precondition ValueError, which the route
\* answers with 400 and never with 404, and the registry is as before.
C12_NoRepoIsBadRequest ==
    [][\A project_id \in ProjectIds, name \in Names :
          (/\ CreateSession(project_id, name)
           /\ get_item_by_id(projects, project_id) # NoRow
           /\ Falsy(get_item_by_id(projects, project_id).repo_path)) =>
              /\ ret'.exc # <<>>
              /\ create_session_route(ret') = 400
              /\ UNCHANGED manager]_vars

\* C13: get_session on an id of the registry returns that session and sets
\* its last_accessed to now, every other field, every other session and the
\* registry staying as they were; on any other id it returns None, raises
\* nothing and changes nothing.
C13_GetSessionRefreshes ==
    [][\A session_id \in SessionKeys : GetSession(session_id) =>
          /\ ret'.exc = <<>>
          /\ _sessions' = _sessions
          /\ allocated' = allocated
          /\ IF DictHas(_sessions, session_id)
             THEN LET obj == DictGet(_sessions, session_id) IN
                  /\ ret'.val = obj
                  /\ heap' = [heap EXCEPT ![obj].last_accessed = now]
             ELSE /\ ret'.val = NoneVal
                  /\ heap' = heap]_vars

\* A get_session has refreshed a named session and left the other session,
\* created at the same time, with its last_accessed.
C13_Witness ==
    /\ ret.op = "get_session"
    /\ ret.val \in DOMAIN heap
    /\ heap[ret.val].name = "n1"
    /\ heap[ret.val].last_accessed > heap[ret.val].created_at
    /\ \E o \in DOMAIN heap :
          /\ heap[o].created_at = heap[ret.val].created_at
          /\ heap[o].last_accessed = heap[o].created_at

\* C14: update_session on an id of the registry sets the name when one is
\* given, keeps it when None is given, sets last_accessed to now and changes
\* no other field, no other session and not the registry; on any other id it
\* returns None and changes nothing.
C14_UpdateSessionFrame ==
    [][\A session_id \in SessionKeys, name \in Names : UpdateSession(session_id, name) =>
          /\ ret'.exc = <<>>
          /\ _sessions' = _sessions
          /\ allocated' = allocated
          /\ IF DictHas(_sessions, session_id)
             THEN LET obj == DictGet(_sessions, session_id) IN
                  /\ ret'.val = obj
                  /\ heap' = [heap EXCEPT
                                ![obj].name = IF name = None THEN heap[obj].name ELSE name,
                                ![obj].last_accessed = now]
             ELSE /\ ret'.val = NoneVal
                  /\ heap' = heap]_vars

\* An update_session has returned a session that carries a name and was
\* refreshed, beside a session that has no name.
C14_Witness ==
    /\ ret.op = "update_session"
    /\ ret.val \in DOMAIN heap
    /\ heap[ret.val].name = "n1"
    /\ heap[ret.val].last_accessed > heap[ret.val].created_at
    /\ \E o \in DOMAIN heap : heap[o].name = None

\* C15: delete_session returns True exactly when the id was in the registry;
\* after it the id is absent and every other entry and session is as it was.
\* An id that left the registry never comes back, so a second delete_session
\* of it returns False and changes nothing.
C15_DeleteSessionOnce ==
    [][/\ \A session_id \in SessionKeys : DeleteSession(session_id) =>
             /\ ret'.exc = <<>>
             /\ ret'.val = (IF DictHas(_sessions, session_id) THEN True ELSE False)
             /\ ~DictHas(_sessions', session_id)
             /\ _sessions' = SelectSeq(_sessions, LAMBDA e : e[1] # session_id)
             /\ \A k \in DictKeys(_sessions') : heap'[DictGet(_sessions', k)] = Session(k)
             /\ ~DictHas(_sessions, session_id) => UNCHANGED manager
       /\ \A k \in UUIDs :
             (k <= allocated /\ ~DictHas(_sessions, k)) => ~DictHas(_sessions', k)]_vars

\* Of two sessions one is gone and the other is left, and the last
\* delete_session, on an id that was generated, returned False.
C15_Witness ==
    /\ ret.op = "delete_session"
    /\ ret.val = False
    /\ allocated = 2
    /\ DictKeys(_sessions) = {2}
    /\ now = 0

\* C16: list_sessions changes neither the registry nor any session; no
\* last_accessed moves, so the sessions a cleanup would remove are the same
\* before and after.
C16_ListSessionsReadOnly ==
    [][\A project_id \in ListFilters : ListSessions(project_id) =>
          /\ UNCHANGED <<manager, now>>
          /\ expired_ids(_sessions', heap', now', _timeout_minutes)
                = expired_ids(_sessions, heap, now, _timeout_minutes)]_vars

\* A listing has returned two sessions, one of them idle for longer than the
\* timeout and still so.
C16_Witness ==
    /\ ret.op = "list_sessions"
    /\ ret.val = 2
    /\ Len(_sessions) = 2
    /\ expired_ids(_sessions, heap, now, _timeout_minutes) = {1}

\* C17: list_sessions with a project_id given returns one summary for exactly
\* each session of the registry whose project_id equals it, and with None one
\* summary for every session; each summary's message_count is the length of
\* its session's message_history.
C17_ListSessionsSelects ==
    \A project_id \in ListFilters :
        LET out == list_sessions(_sessions, heap, project_id)
            live == IF project_id = None
                    THEN DictKeys(_sessions)
                    ELSE {k \in DictKeys(_sessions) : Session(k).project_id = project_id}
        IN /\ Len(out) = Cardinality(live)
           /\ {out[i].session_id : i \in DOMAIN out} = live
           /\ \A i \in DOMAIN out :
                 out[i].message_count = Len(Session(out[i].session_id).message_history)

\* The cleanup tasks that are not done.
ActiveTasks(ts) == {t \in DOMAIN ts : ts[t].st \in {"pending", "sleeping"}}

\* C18: a start_cleanup_task called while the task it started before is not
\* done creates no task and changes nothing of the manager, and at no time
\* is more than one cleanup task active.
C18_StartIsIdempotent ==
    [][/\ (StartCleanupTask /\ ~ShouldStart(_cleanup_task, tasks)) =>
             UNCHANGED <<manager, reaper>>
       /\ Cardinality(ActiveTasks(tasks')) <= 1]_vars

\* start_cleanup_task has returned and the one task there is sleeps in its
\* loop, a session being live.
C18_Witness ==
    /\ ret.op = "start_cleanup_task"
    /\ NumTasks(tasks) = 1
    /\ tasks[1].st = "sleeping"
    /\ ~tasks[1].must_cancel
    /\ Len(_sessions) = 1

\* C19: when a pass of the cleanup loop raises an exception, the task is not
\* done afterwards: while stop_cleanup_task has not been called it sleeps
\* again, ready for its next pass.
C19_LoopSurvivesFailure ==
    [][\A t \in TaskIds : CleanupLoopPassFails(t) =>
          (_running => /\ tasks'[t].st = "sleeping"
                       /\ ~tasks'[t].must_cancel
                       /\ _cleanup_task' = t
                       /\ _running')]_vars

\* A task whose pass failed once is still sleeping in its loop, and the
\* session that was created has been removed.
C19_Witness ==
    \E t \in TaskIds :
        /\ tasks[t].failed
        /\ tasks[t].st = "sleeping"
        /\ _running
        /\ allocated = 1
        /\ _sessions = <<>>

\* C20: a chat request for a session_id that is not in the registry ends with
\* 404 in the step that looks the id up: no prompt is built, the request is
\* never waiting for the agent, and registry and sessions are as before.  A
\* request that ended stays as it ended.
C20_UnknownSessionNoQuery ==
    [][/\ \A c \in ChatIds, session_id \in SessionKeys :
             (ChatRequest(c, session_id, MessageOf(c)) /\ ~DictHas(_sessions, session_id)) =>
                 /\ chats'[c].pc = "done"
                 /\ chats'[c].status = 404
                 /\ chats'[c].prompt = ""
                 /\ UNCHANGED manager
       /\ \A c \in ChatIds : chats[c].pc = "done" => chats'[c] = chats[c]]_vars

\* A request for an id that was deleted got 404 while another request was
\* waiting for the agent.
C20_Witness ==
    /\ chats[1].pc = "done" /\ chats[1].status = 404
    /\ chats[2].pc = "query"
    /\ _sessions = <<>>

\* The transcript a prompt has to show for the first n messages of history:
\* one line per message, role capitalised, colon, content, in order.
RECURSIVE Transcript(_, _)
Transcript(history, n) ==
    LET Line(msg) == (IF msg.role = "user" THEN "User" ELSE "Assistant")
                         \o ": " \o msg.content
    IN IF n = 0 THEN ""
       ELSE IF n = 1 THEN Line(history[1])
       ELSE Transcript(history, n - 1) \o "\n\n" \o Line(history[n])

\* C21: the prompt a request builds is its message alone when the history
\* is empty; otherwise it is the heading, the transcript of every message of
\* the history in order, and then the new-question section with the message;
\* the history is the same after the prompt was built.
C21_PromptRendersHistory ==
    [][\A c \in ChatIds : ChatRequest(c, 1, MessageOf(c)) =>
          LET history == heap[1].message_history IN
          /\ heap'[1].message_history = history
          /\ chats'[c].prompt =
                IF history = <<>> THEN MessageOf(c)
                ELSE "Previous conversation:\n" \o Transcript(history, Len(history))
                     \o "\n\nUser's new question: " \o MessageOf(c)
                     \o "\n\nPlease respond to the user's new question, using the previous conversation context if relevant."]_vars

\* Request 2 built its prompt from two exchanges, the second without a reply.
C21_Witness ==
    /\ chats[2].pc = "query"
    /\ Len(heap[1].message_history) = 4
    /\ chats[2].prompt =
          "Previous conversation:\nUser: m1\n\nAssistant: r1\n\nUser: m2\n\nAssistant: \n\nUser's new question: m2\n\nPlease respond to the user's new question, using the previous conversation context if relevant."

\* C22: a create_session whose generated session_id is the key of an entry
\* of the registry raises, stores nothing and leaves that entry as it was.
C22_CollisionFailsLoudly ==
    [][\A project_id \in ProjectIds, name \in Names, session_id \in UUIDs :
          (CreateSessionStore(project_id, name, session_id) /\ DictHas(_sessions, session_id)) =>
              /\ ret'.exc # <<>>
              /\ UNCHANGED manager]_vars

\* C23: a chat exchange whose query ended without any assistant text does
\* not succeed, and no session's message_history changes in the step that
\* ends it.
C23_NoTextIsFailure ==
    [][\A c \in ChatIds : (ChatComplete(c) /\ chats[c].response_text = "") =>
          /\ chats'[c].status # 200
          /\ \A o \in DOMAIN heap : o \in DOMAIN heap' =>
                heap'[o].message_history = heap[o].message_history]_vars

\* C24: in every state every session's message_history, also that of a
\* session only a request still holds, has even length and alternates user,
\* assistant from its first entry.
C24_HistoryAlternates ==
    \A o \in DOMAIN heap :
        LET history == heap[o].message_history IN
        /\ Len(history) % 2 = 0
        /\ \A i \in DOMAIN history :
              history[i].role = (IF i % 2 = 1 THEN "user" ELSE "assistant")

\* Two exchanges ran on one session, the first of them without a reply.
C24_Witness ==
    \E o \in DOMAIN heap :
        /\ Len(heap[o].message_history) = 4
        /\ heap[o].message_history[2].content = ""
        /\ heap[o].message_history[4].content = "r1"

\* C25: an object that exists before and after a step has the same
\* session_id, created_at, project_id and repo_path, whatever the step:
\* get, update, list, chat, cleanup, or a change of the project's repo_path.
C25_IdentityFieldsFrozen ==
    [][\A o \in DOMAIN heap : o \in DOMAIN heap' =>
          /\ heap'[o].session_id = heap[o].session_id
          /\ heap'[o].created_at = heap[o].created_at
          /\ heap'[o].project_id = heap[o].project_id
          /\ heap'[o].repo_path = heap[o].repo_path]_vars

\* The repository of p1 has moved while a session of p1, renamed, refreshed
\* and with one exchange, keeps the path it was created with.
C25_Witness ==
    /\ projects["p1"].repo_path = "/repo/c"
    /\ \E k \in DictKeys(_sessions) :
          /\ Session(k).project_id = "p1"
          /\ Session(k).repo_path = "/repo/a"
          /\ Session(k).name = "n1"
          /\ Session(k).last_accessed > Session(k).created_at
          /\ Len(Session(k).message_history) = 2

\* C26: a cleanup pass deletes its expired_ids with nothing run in between:
\* every id it deletes is in the registry, no KeyError is logged, the
\* registry afterwards is the one before without exactly those ids, and
\* while a pass stands between scan and deletion only the clock moves.
C26_OperationsAtomic ==
    [][/\ \A t \in TaskIds : CleanupLoopDel(t) =>
             /\ \A i \in DOMAIN tasks[t].expired_ids :
                   DictHas(_sessions, tasks[t].expired_ids[i])
             /\ ~tasks'[t].failed
             /\ _sessions' = DictDel(_sessions, {tasks[t].expired_ids[i] :
                                                   i \in DOMAIN tasks[t].expired_ids})
       /\ Busy(tasks) => (now' # now \/ \E t \in TaskIds : CleanupLoopDel(t))]_vars

\* A pass has found session 1 expired and has not yet deleted it, session 2
\* being live beside it.
C26_Witness ==
    \E t \in TaskIds :
        /\ tasks[t].st = "scanned"
        /\ tasks[t].expired_ids = <<1>>
        /\ DictKeys(_sessions) = {1, 2}

\* C27: when get_session has just returned a session and a cleanup_expired
\* pass then runs with the refreshed last_accessed no older than the
\* timeout, the pass leaves the session, the same object, in the registry.
C27_RefreshedSurvivesPass ==
    [][CleanupExpired =>
          \A k \in DictKeys(_sessions) :
              (/\ ret.op = "get_session"
               /\ ret.val = DictGet(_sessions, k)
               /\ now - Session(k).last_accessed <= _timeout_minutes)
              => /\ DictHas(_sessions', k)
                 /\ DictGet(_sessions', k) = DictGet(_sessions, k)
                 /\ heap'[DictGet(_sessions, k)] = heap[DictGet(_sessions, k)]]_vars

\* Session 1, created at 0, was returned by a get at 1; the clock now reads
\* 2, exactly the timeout later, and session 2 beside it has expired.
C27_Witness ==
    /\ ret.op = "get_session"
    /\ DictKeys(_sessions) = {1, 2}
    /\ ret.val = DictGet(_sessions, 1)
    /\ Session(1).created_at = 0
    /\ Session(1).last_accessed = 1
    /\ now = 2
    /\ now - Session(1).last_accessed = _timeout_minutes
    /\ now - Session(2).last_accessed > _timeout_minutes

\* C28: when start_cleanup_task returns, no stop_cleanup_task having been
\* called after it, the manager is running and a cleanup task that has not
\* been cancelled is pending or asleep in its loop, also when the call came
\* while a stop_cleanup_task was still awaiting the old task.
C28_StartLeavesReaperActive ==
    [][StartCleanupTask =>
          /\ _running'
          /\ \E t \in ActiveTasks(tasks') : ~tasks'[t].must_cancel]_vars

\* C29: when a chat exchange returns success, the object it appended to is
\* still a value of the registry, whatever delete_session calls or cleanup
\* passes ran while the agent's query was in flight.
C29_ExchangeLandsInRegistry ==
    [][\A c \in ChatIds : ChatComplete(c) =>
          \E i \in DOMAIN _sessions' : _sessions'[i][2] = chats[c].session]_vars

\* C30: when a chat exchange succeeds, the history it appends to is the one
\* its prompt was built from: building the prompt again from the history as
\* it stands at the append gives the prompt that was sent.
C30_PromptHistoryIsPrefix ==
    [][\A c \in ChatIds : ChatComplete(c) =>
          chats[c].prompt = build_chat_prompt(heap[chats[c].session].message_history,
                                              chats[c].message)]_vars
====
